---- MODULE Spec2Model ----
(***************************************************************************)
(* Model of sentinel_query_download.py: the __main__ orchestration (query, *)
(* credential pre-flight, pool.starmap dispatch) and the per-granule job   *)
(* downloadGranule / downloadGranule_url with its archive extraction and   *)
(* flattening into the run's GUID directory.                               *)
(*                                                                         *)
(* Granularity: a step of a job is one access to state shared between      *)
(* jobs (satellite_dir, GUID_dir and what is below it); calls that touch    *)
(* only the job's own state (its requests, its own archive file, its        *)
(* prints) are part of the step they follow.  A job runs inside one pool    *)
(* worker process; at most nproc jobs run at a time and jobs are taken from *)
(* the task queue in list order (chunksize=1).  extractall is one step.     *)
(***************************************************************************)
EXTENDS Integers, Sequences, FiniteSets, TLC

\* number of rows the query returned (the granule list handed to the pool)
NGranules == 2
\* largest value of the config's nproc that is enumerated
MaxProc == 2

Granules == 1..NGranules

VARIABLES
    \* ---- run inputs (fixed by Init) ----
    download_site,   \* config download/download_site: "AWS" | "ASF" | "both"
    nproc,           \* config download/nproc
    download,        \* output_format == "csv" and args.download
    http_user,       \* asf_download/http-user: [has, val], val a text
    http_pass,       \* asf_download/http-password: [has, val], val a text
    rootAtStart,     \* satellite_dir exists when the run starts
    urlSame,         \* the rows' URL ends in "<Granule Name>.zip" (one format per service)
    \* ---- __main__ ----
    mainPc,          \* position of the orchestrator
    guidGenerated,   \* how many times the GUID_dir path was generated
    queryPosted,     \* the search POST of line 319 has been sent
    asf_wget_str,    \* the flags string of lines 376/379, put into every row
    taskq,           \* jobs handed to the pool and not yet taken by a worker
    \* ---- file system ----
    rootExists,      \* satellite_dir exists
    guidMade,        \* how many times GUID_dir was created
    tree,            \* directory entries <<parent, name>>: GUID_dir and all below it
    cwd,             \* files of the working directory: name -> content
    \* ---- per job (one downloadGranule call) ----
    pc,              \* position inside downloadGranule
    runs,            \* how many times a worker started the job
    flag,            \* local flag of line 50
    status,          \* local status of lines 63/76
    awsTried,        \* the AWS branch of lines 64-83 was entered
    auth,            \* (username, password) given to the session at line 142
    net,             \* network calls the job made, in order
    resp,            \* [code, body] of the authenticated GET, code 0 before it
    msgs,            \* messages the job printed
    dirPath,         \* extracted_dirs[0] chosen at line 117
    items,           \* items of os.listdir(dir_path) still to move
    normEntered,     \* the with-block of line 113 was entered
    exc              \* exception that ended the job, "none" otherwise

inputs == <<download_site, nproc, download, http_user, http_pass, rootAtStart,
            urlSame>>
mainVars == <<mainPc, guidGenerated, queryPosted, asf_wget_str, taskq>>
fsVars == <<rootExists, guidMade, tree, cwd>>
jobVars == <<pc, runs, flag, status, awsTried, auth, net, resp, msgs, dirPath,
             items, normEntered, exc>>
vars == <<inputs, mainVars, fsVars, jobVars>>

----------------------------------------------------------------------------
(* Names.  A name is a pair <<text, n>>; n is the granule for names that   *)
(* are unique to a granule and 0 for names shared by all archives.         *)

Top == <<".", 0>>
\* the entry of GUID_dir itself, below satellite_dir
GuidEntry == <<<<"/", 0>>, Top>>
NoDir == <<"", 0>>
ZipName(j) == <<"zip", j>>
UrlName(j) == <<"url", j>>
SafeDir(j) == <<"SAFE", j>>
FileA == <<"a", 0>>
FileB == <<"b", 0>>
FileC == <<"c", 0>>
FileM == <<"m", 0>>
SubS == <<"s", 0>>

FileNames == {ZipName(j) : j \in Granules} \cup {UrlName(j) : j \in Granules}

\* os.path.isdir by name: the model keeps kinds tied to names
IsDirName(n) == n[1] \in {"SAFE", "s"}

\* Response bodies: a zero-length body, or a zip archive of one of these kinds
ArchiveKinds == {"ab", "cs", "flat", "two"}
Bodies == {"empty"} \cup ArchiveKinds

\* members of the archive of kind k served for granule j
Archive(k, j) ==
    CASE k = "ab"   -> {<<Top, SafeDir(j)>>, <<SafeDir(j), FileA>>, <<SafeDir(j), FileB>>}
      [] k = "cs"   -> {<<Top, SafeDir(j)>>, <<SafeDir(j), FileC>>, <<SafeDir(j), SubS>>}
      [] k = "flat" -> {<<Top, FileM>>}
      [] k = "two"  -> {<<Top, SafeDir(j)>>, <<SafeDir(j), FileA>>, <<Top, FileM>>}
      [] OTHER      -> {}

\* content of a file of the working directory: "absent", or the body written
NoFile == "absent"
NoResp == [code |-> 0, body |-> "empty"]

\* HTTP status codes the authenticated source answers with
StatusCodes == {200, 403}

----------------------------------------------------------------------------
(* Text.  A text is a sequence of symbols: the characters of ValueChars    *)
(* and the texts "--", "http-user" and "http-password", each of which      *)
(* holds no whitespace and no "=".                                         *)

Blank == " "
Equals == "="
Dashes == "--"
KeyUser == "http-user"
KeyPass == "http-password"
ValueChars == {"a", Equals, Blank}

\* an option of the config file: absent, or present with a value
NoOption == [has |-> FALSE, val |-> <<>>]
OptionValue(v) == [has |-> TRUE, val |-> v]

\* a local variable of downloadGranule before its first assignment
Unbound == [has |-> FALSE, val |-> <<>>]
\* s.auth before the session of line 141 exists
NoAuth == [user |-> <<>>, pass |-> <<>>]

\* number of symbols at the start of str before the first sep
RECURSIVE RunLength(_, _)
RunLength(str, sep) ==
    IF str = <<>> \/ Head(str) = sep THEN 0 ELSE 1 + RunLength(Tail(str), sep)

\* str.split(): the maximal runs of symbols that are not whitespace
RECURSIVE SplitBlank(_)
SplitBlank(str) ==
    IF str = <<>> THEN <<>>
    ELSE IF Head(str) = Blank THEN SplitBlank(Tail(str))
    ELSE <<SubSeq(str, 1, RunLength(str, Blank))>>
         \o SplitBlank(SubSeq(str, RunLength(str, Blank) + 1, Len(str)))

\* str.split(sep): the pieces between the occurrences of sep, empty ones kept
RECURSIVE SplitOn(_, _)
SplitOn(str, sep) ==
    IF RunLength(str, sep) = Len(str) THEN <<str>>
    ELSE <<SubSeq(str, 1, RunLength(str, sep))>>
         \o SplitOn(SubSeq(str, RunLength(str, sep) + 2, Len(str)), sep)

\* str.startswith(prefix)
StartsWith(str, prefix) ==
    Len(str) >= Len(prefix) /\ SubSeq(str, 1, Len(prefix)) = prefix

\* lines 90-94: the loop over the options; found is [user, pass] so far
RECURSIVE ParseOptions(_, _)
ParseOptions(options, found) ==
    IF options = <<>> THEN found
    ELSE ParseOptions(Tail(options),
            IF StartsWith(Head(options), <<Dashes, KeyUser, Equals>>)
            THEN [found EXCEPT !.user = OptionValue(SplitOn(Head(options), Equals)[2])]
            ELSE IF StartsWith(Head(options), <<Dashes, KeyPass, Equals>>)
            THEN [found EXCEPT !.pass = OptionValue(SplitOn(Head(options), Equals)[2])]
            ELSE found)

\* lines 89-94: asf_user and asf_pass as parsed from the flags string of the row
ParsedCredentials(str) ==
    ParseOptions(SplitBlank(str), [user |-> Unbound, pass |-> Unbound])

----------------------------------------------------------------------------
\* the state of the program and of the file system when the run starts
Start ==
    /\ mainPc = "config"
    /\ guidGenerated = 0
    /\ queryPosted = FALSE
    /\ asf_wget_str = <<>>
    /\ taskq = <<>>
    /\ rootExists = rootAtStart
    /\ guidMade = 0
    /\ tree = {}
    /\ cwd = [f \in FileNames |-> NoFile]
    /\ pc = [j \in Granules |-> "queued"]
    /\ runs = [j \in Granules |-> 0]
    /\ flag = [j \in Granules |-> FALSE]
    /\ status = [j \in Granules |-> 0]
    /\ awsTried = [j \in Granules |-> FALSE]
    /\ auth = [j \in Granules |-> NoAuth]
    /\ net = [j \in Granules |-> <<>>]
    /\ resp = [j \in Granules |-> NoResp]
    /\ msgs = [j \in Granules |-> {}]
    /\ dirPath = [j \in Granules |-> NoDir]
    /\ items = [j \in Granules |-> {}]
    /\ normEntered = [j \in Granules |-> FALSE]
    /\ exc = [j \in Granules |-> "none"]

\* the runs explored: every site, concurrency and flag, and credentials that
\* are missing, empty or present
Init ==
    /\ download_site \in {"AWS", "ASF", "both"}
    /\ nproc \in 1..MaxProc
    /\ download \in BOOLEAN
    /\ http_user \in {NoOption, OptionValue(<<>>), OptionValue(<<"u">>)}
    /\ http_pass \in {NoOption, OptionValue(<<>>), OptionValue(<<"p">>)}
    /\ urlSame \in BOOLEAN
    /\ rootAtStart \in BOOLEAN
    /\ Start

\* longest option value of the runs of OptionsSpec
MaxValueLen == 3

\* the texts of at most n characters
RECURSIVE Texts(_)
Texts(n) ==
    IF n = 0 THEN {<<>>}
    ELSE Texts(n - 1) \cup {Append(v, c) : v \in Texts(n - 1), c \in ValueChars}

\* option values as config.get returns them: the parser strips the whitespace
\* around a value
ConfigValues ==
    {v \in Texts(MaxValueLen) : v = <<>> \/ (Head(v) # Blank /\ v[Len(v)] # Blank)}

\* runs of one worker against the authenticated source, with every user name
\* and password of ConfigValues
OptionsInit ==
    /\ download_site = "ASF"
    /\ nproc = 1
    /\ download = TRUE
    /\ http_user \in {OptionValue(v) : v \in ConfigValues}
    /\ http_pass \in {OptionValue(v) : v \in ConfigValues}
    /\ urlSame = TRUE
    /\ rootAtStart = TRUE
    /\ Start

----------------------------------------------------------------------------
(* __main__ *)

\* lines 219-227: read the config, generate the GUID_dir path (a string)
ReadConfig ==
    /\ mainPc = "config"
    /\ guidGenerated' = guidGenerated + 1
    /\ mainPc' = "query"
    /\ UNCHANGED <<inputs, queryPosted, asf_wget_str, taskq, fsVars, jobVars>>

\* lines 317-332: the search POST and the query log
RunQuery ==
    /\ mainPc = "query"
    /\ queryPosted' = TRUE
    /\ mainPc' = IF download THEN "preflight" ELSE "complete"
    /\ UNCHANGED <<inputs, guidGenerated, asf_wget_str, taskq, fsVars, jobVars>>

\* variant: the has_option tests without the len(...) > 0 tests of lines 371-372
CredentialsMissing_NoLengthTest ==
    \/ ~http_user.has
    \/ ~http_pass.has

\* lines 367-373: the condition under which ValueError is raised
CredentialsMissing ==
    \/ ~http_user.has
    \/ ~http_pass.has
    \/ ~(Len(http_user.val) > 0)
    \/ ~(Len(http_pass.val) > 0)

\* line 375: config.items("asf_download"), the options in file order
AsfDownloadItems ==
    <<[key |-> KeyUser, val |-> http_user.val],
      [key |-> KeyPass, val |-> http_pass.val]>>

\* line 376: "--%s=%s" % (item[0], item[1])
Flag(item) == <<Dashes, item.key, Equals>> \o item.val

\* line 376: " ".join(...) of the flags of the options
RECURSIVE JoinFlags(_)
JoinFlags(opts) ==
    IF opts = <<>> THEN <<>>
    ELSE IF Len(opts) = 1 THEN Flag(opts[1])
    ELSE Flag(opts[1]) \o <<Blank>> \o JoinFlags(Tail(opts))

\* lines 365-379
Preflight ==
    /\ mainPc = "preflight"
    /\ mainPc' = IF download_site # "AWS" /\ CredentialsMissing
                 THEN "aborted" ELSE "dispatch"
    /\ asf_wget_str' = IF download_site = "AWS" THEN <<>>
                       ELSE IF CredentialsMissing THEN asf_wget_str
                       ELSE JoinFlags(AsfDownloadItems)
    /\ UNCHANGED <<inputs, guidGenerated, queryPosted, taskq, fsVars, jobVars>>

\* variant: the first row is entered a second time at the end of the list
DownloadList_FirstRowTwice ==
    [i \in 1..(NGranules + 1) |-> IF i <= NGranules THEN i ELSE 1]

\* lines 380-386: one entry of downloadList per row, in row order
DownloadList == [i \in 1..NGranules |-> i]

\* lines 389-393: Pool(processes=nproc), starmap(..., chunksize=1)
Dispatch ==
    /\ mainPc = "dispatch"
    /\ taskq' = DownloadList
    /\ mainPc' = "pool"
    /\ UNCHANGED <<inputs, guidGenerated, asf_wget_str, queryPosted, fsVars, jobVars>>

----------------------------------------------------------------------------
(* Pool workers and downloadGranule *)

Terminal(j) == pc[j] \in {"done", "raised"}
Running(j) == pc[j] \notin {"queued", "done", "raised"}

\* the pool exists from Pool(...) until starmap returns or raises (line 390-393)
PoolAlive == mainPc = "pool"

\* a worker process is free to take the next task of the queue
WorkerFree == Cardinality({k \in Granules : Running(k)}) < nproc

\* a worker takes the head of the task queue and calls downloadGranule (line 39)
StartJob(j) ==
    /\ PoolAlive
    /\ taskq # <<>>
    /\ Head(taskq) = j
    /\ WorkerFree
    /\ taskq' = Tail(taskq)
    /\ pc' = [pc EXCEPT ![j] = "exists"]
    /\ runs' = [runs EXCEPT ![j] = @ + 1]
    /\ UNCHANGED <<inputs, mainPc, guidGenerated, asf_wget_str, queryPosted, fsVars, flag,
                   status, awsTried, auth, net, resp, msgs, dirPath, items, normEntered, exc>>

\* an exception leaves downloadGranule: the worker reports (False, e) for the task
Raise(j, e) ==
    /\ pc' = [pc EXCEPT ![j] = "raised"]
    /\ exc' = [exc EXCEPT ![j] = e]

\* line 50: flag = os.path.exists(satellite_dir)
CheckRoot(j) ==
    /\ PoolAlive
    /\ pc[j] = "exists"
    /\ flag' = [flag EXCEPT ![j] = rootExists]
    /\ pc' = [pc EXCEPT ![j] = "mkroot"]
    /\ UNCHANGED <<inputs, mainVars, fsVars, runs, auth, status, awsTried, net, resp,
                   msgs, dirPath, items, normEntered, exc>>

\* variant: os.makedirs called without exist_ok
ExistOk_False == FALSE

\* line 53: the exist_ok argument of os.makedirs
ExistOk == TRUE

\* lines 52-53: os.makedirs(satellite_dir, exist_ok=True) when flag is false;
\* makedirs raises FileExistsError for an existing directory unless exist_ok is
\* set (flag is not read again: the model clears it)
MakeRoot(j) ==
    /\ PoolAlive
    /\ pc[j] = "mkroot"
    /\ flag' = [flag EXCEPT ![j] = FALSE]
    /\ IF flag[j]
       THEN /\ pc' = [pc EXCEPT ![j] = "aws"]
            /\ UNCHANGED <<rootExists, exc>>
       ELSE IF rootExists /\ ~ExistOk
       THEN /\ Raise(j, "FileExistsError")
            /\ UNCHANGED rootExists
       ELSE /\ rootExists' = TRUE
            /\ pc' = [pc EXCEPT ![j] = "aws"]
            /\ UNCHANGED exc
    /\ UNCHANGED <<inputs, mainVars, guidMade, tree, cwd, runs, auth,
                   status, awsTried, net, resp, msgs, dirPath, items, normEntered>>

\* line 64: the open-dataset branch is entered
AwsBranch(site) == site = "AWS" \/ site = "both"

\* line 76: status of the open-dataset transfer (the call of line 78 is disabled)
AwsTransferStatus == 0

\* variant: the authenticated retrieval is tried whatever the site and the status
AsfBranch_Unconditional(st, site) == TRUE

\* line 84: the authenticated branch is entered
AsfBranch(st, site) == (st # 0 /\ site = "both") \/ site = "ASF"

\* lines 63-84: the open-dataset attempt and the choice of the next branch
TryAWS(j) ==
    /\ PoolAlive
    /\ pc[j] = "aws"
    /\ LET st == IF AwsBranch(download_site) THEN AwsTransferStatus ELSE 0
       IN /\ status' = [status EXCEPT ![j] = st]
          /\ awsTried' = [awsTried EXCEPT ![j] = AwsBranch(download_site)]
          /\ msgs' = [msgs EXCEPT ![j] =
                        IF AwsBranch(download_site) /\ st # 0
                        THEN @ \cup {<<"AWS download failed", 0>>} ELSE @]
          /\ pc' = [pc EXCEPT ![j] =
                        IF AsfBranch(st, download_site) THEN "fetch" ELSE "done"]
    /\ UNCHANGED <<inputs, mainVars, fsVars, runs, auth, flag, net, resp, dirPath, items,
                   normEntered, exc>>

\* line 147: filename = url.split("/")[-1]
UrlFile(j) == IF urlSame THEN ZipName(j) ELSE UrlName(j)

\* lines 96-101: status after downloadGranule_url returned; its outcome is not used
FetchStatus(st, r) == st

\* lines 98-101: where downloadGranule goes after the fetch
AfterFetch(st) == IF st = 0 THEN "openzip" ELSE "done"

\* variant: the authenticated GET alone, without resolving the redirect first
FetchCalls_AuthOnly == <<"GET_AUTH">>

\* lines 144-145: the unauthenticated GET for the redirect target, then the
\* authenticated GET to the resolved target
FetchCalls == <<"GET", "GET_AUTH">>

\* lines 149-160: what downloadGranule_url prints for response r
FetchMessages(r) ==
    IF r.code = 200
    THEN {IF r.body # "empty" THEN <<"exists and is not empty", 0>>
                              ELSE <<"is empty or does not exist", 0>>}
    ELSE {<<"Failed to download: HTTP", r.code>>}

\* lines 89-101 with downloadGranule_url (lines 139-160): the credentials parsed
\* from the flags string (UnboundLocalError at line 96 when the loop assigned
\* none); the two GETs; on status 200 the body is written to filename; then the
\* status test of lines 98-101
FetchUrl(j) ==
    /\ PoolAlive
    /\ pc[j] = "fetch"
    /\ LET found == ParsedCredentials(asf_wget_str)
       IN IF ~(found.user.has /\ found.pass.has)
          THEN /\ pc' = [pc EXCEPT ![j] = "raised"]
               /\ exc' = [exc EXCEPT ![j] = "UnboundLocalError"]
               /\ UNCHANGED <<auth, resp, net, cwd, msgs, status>>
          ELSE \E code \in StatusCodes, body \in Bodies :
                 /\ code # 200 => body = "empty"
                 /\ LET r == [code |-> code, body |-> body]
                        st == FetchStatus(status[j], r)
                    IN /\ auth' = [auth EXCEPT ![j] =
                                     [user |-> found.user.val, pass |-> found.pass.val]]
                       /\ resp' = [resp EXCEPT ![j] = r]
                       /\ net' = [net EXCEPT ![j] = @ \o FetchCalls]
                       /\ cwd' = IF code = 200
                                 THEN [cwd EXCEPT ![UrlFile(j)] = body] ELSE cwd
                       /\ msgs' = [msgs EXCEPT ![j] =
                                     (@ \cup FetchMessages(r))
                                     \cup (IF st # 0 THEN {<<"ASF download failed", 0>>}
                                                     ELSE {})]
                       /\ status' = [status EXCEPT ![j] = st]
                       /\ pc' = [pc EXCEPT ![j] = AfterFetch(st)]
                       /\ UNCHANGED exc
    /\ UNCHANGED <<inputs, mainVars, rootExists, guidMade, tree,
                   runs, flag, awsTried, dirPath, items, normEntered>>

\* os.path.exists(GUID_dir)
GuidExists == GuidEntry \in tree

\* line 114: extractall(GUID_dir) writes every member of the archive below GUID_dir
\* and creates GUID_dir for the first member when it is missing
Extracted(t, members) == IF members = {} THEN t ELSE t \cup members \cup {GuidEntry}

\* lines 113-114: open zip_file = Granule Name + ".zip" and extractall(GUID_dir)
OpenZip(j) ==
    /\ PoolAlive
    /\ pc[j] = "openzip"
    /\ normEntered' = [normEntered EXCEPT ![j] = TRUE]
    /\ LET f == cwd[ZipName(j)]
       IN IF f = "absent"
          THEN /\ Raise(j, "FileNotFoundError")
               /\ UNCHANGED <<guidMade, tree>>
          ELSE IF f = "empty"
          THEN /\ Raise(j, "BadZipFile")
               /\ UNCHANGED <<guidMade, tree>>
          ELSE /\ tree' = Extracted(tree, Archive(f, j))
               /\ guidMade' = IF GuidEntry \in tree' /\ ~GuidExists
                              THEN guidMade + 1 ELSE guidMade
               /\ pc' = [pc EXCEPT ![j] = "listdir"]
               /\ UNCHANGED exc
    /\ UNCHANGED <<inputs, mainVars, rootExists, cwd, runs, auth, flag, status,
                   awsTried, net, resp, msgs, dirPath, items>>

\* line 116: the directories directly below GUID_dir
ExtractedDirs(t) == {e[2] : e \in {x \in t : x[1] = Top /\ IsDirName(x[2])}}

\* os.listdir(dir_path)
Children(t, d) == {e[2] : e \in {x \in t : x[1] = d}}

\* lines 116-117: list GUID_dir and take extracted_dirs[0] (listing order is arbitrary)
ListDirs(j) ==
    /\ PoolAlive
    /\ pc[j] = "listdir"
    /\ IF ~GuidExists
       THEN /\ Raise(j, "FileNotFoundError")
            /\ UNCHANGED dirPath
       ELSE IF ExtractedDirs(tree) = {}
       THEN /\ Raise(j, "IndexError")
            /\ UNCHANGED dirPath
       ELSE /\ \E d \in ExtractedDirs(tree) : dirPath' = [dirPath EXCEPT ![j] = d]
            /\ pc' = [pc EXCEPT ![j] = "chkdir"]
            /\ UNCHANGED exc
    /\ UNCHANGED <<inputs, mainVars, fsVars, runs, auth, flag, status, awsTried, net, resp,
                   msgs, items, normEntered>>

\* variant: the archive is left in the working directory
RemoveZip_Keep(j, files) == files

\* lines 125-127: os.remove(zip_file), os.chdir(orig_dir), return.  The archive
\* is the job's own file: it was opened at line 113, so it is there to remove.
RemoveZip(j, files) == [files EXCEPT ![ZipName(j)] = "absent"]

\* line 119: os.path.exists(dir_path) and os.path.isdir(dir_path); when false,
\* lines 125-127 follow
CheckDir(j) ==
    /\ PoolAlive
    /\ pc[j] = "chkdir"
    /\ IF <<Top, dirPath[j]>> \in tree
       THEN /\ pc' = [pc EXCEPT ![j] = "lsitems"]
            /\ UNCHANGED cwd
       ELSE /\ cwd' = RemoveZip(j, cwd)
            /\ pc' = [pc EXCEPT ![j] = "done"]
    /\ UNCHANGED <<inputs, mainVars, rootExists, guidMade, tree,
                   runs, auth, flag, status, awsTried, net, resp, msgs, dirPath, items,
                   normEntered, exc>>

\* line 120: os.listdir(dir_path)
ListItems(j) ==
    /\ PoolAlive
    /\ pc[j] = "lsitems"
    /\ IF <<Top, dirPath[j]>> \notin tree
       THEN /\ Raise(j, "FileNotFoundError")
            /\ UNCHANGED items
       ELSE /\ items' = [items EXCEPT ![j] = Children(tree, dirPath[j])]
            /\ pc' = [pc EXCEPT ![j] = "move"]
            /\ UNCHANGED exc
    /\ UNCHANGED <<inputs, mainVars, fsVars, runs, auth, flag, status, awsTried, net, resp,
                   msgs, dirPath, normEntered>>

\* line 121: shutil.move(os.path.join(dir_path, item), GUID_dir)
MoveItem(j) ==
    /\ PoolAlive
    /\ pc[j] = "move"
    /\ \E it \in items[j] :
          IF <<Top, it>> \in tree
          THEN /\ Raise(j, "shutil.Error")
               /\ UNCHANGED <<tree, items>>
          ELSE IF <<dirPath[j], it>> \notin tree
          THEN /\ Raise(j, "FileNotFoundError")
               /\ UNCHANGED <<tree, items>>
          ELSE /\ tree' = (tree \ {<<dirPath[j], it>>}) \cup {<<Top, it>>}
               /\ items' = [items EXCEPT ![j] = @ \ {it}]
               /\ UNCHANGED <<pc, exc>>
    /\ UNCHANGED <<inputs, mainVars, rootExists, guidMade, cwd,
                   runs, auth, flag, status, awsTried, net, resp, msgs, dirPath, normEntered>>

\* variant: dir_path is GUID_dir itself
DirEntry_Guid(d) == GuidEntry

\* line 117: dir_path = os.path.join(GUID_dir, extracted_dirs[0]), as a directory entry
DirEntry(d) == <<Top, d>>

\* lines 123-127: os.rmdir(dir_path) after the loop of line 120, then
\* os.remove(zip_file), os.chdir(orig_dir), return
Rmdir(j) ==
    /\ PoolAlive
    /\ pc[j] = "move"
    /\ items[j] = {}
    /\ IF <<Top, dirPath[j]>> \notin tree
       THEN /\ Raise(j, "FileNotFoundError")
            /\ UNCHANGED <<tree, cwd>>
       ELSE IF Children(tree, dirPath[j]) # {}
       THEN /\ Raise(j, "OSError")
            /\ UNCHANGED <<tree, cwd>>
       ELSE /\ tree' = tree \ {DirEntry(dirPath[j])}
            /\ cwd' = RemoveZip(j, cwd)
            /\ pc' = [pc EXCEPT ![j] = "done"]
            /\ UNCHANGED exc
    /\ UNCHANGED <<inputs, mainVars, rootExists, guidMade,
                   runs, auth, flag, status, awsTried, net, resp, msgs, dirPath, items,
                   normEntered>>

----------------------------------------------------------------------------
(* One call of downloadGranule run from start to end with no other worker  *)
(* between its steps.  A result is [t, fs, out]: the entries below          *)
(* GUID_dir, the files of the working directory, and how the call ended    *)
(* ("done", or the name of the exception it raised).                       *)

\* lines 120-125: move the items left in its out of d in any listing order, then
\* os.rmdir(d) and os.remove(zip_file)
RECURSIVE FlattenResults(_, _, _, _, _)
FlattenResults(t, fs, j, d, its) ==
    IF its = {}
    THEN IF Children(t, d) # {}
         THEN {[t |-> t, fs |-> fs, out |-> "OSError"]}
         ELSE {[t |-> t \ {DirEntry(d)}, fs |-> RemoveZip(j, fs), out |-> "done"]}
    ELSE UNION {IF <<Top, it>> \in t
                THEN {[t |-> t, fs |-> fs, out |-> "shutil.Error"]}
                ELSE FlattenResults((t \ {<<d, it>>}) \cup {<<Top, it>>}, fs, j, d,
                                    its \ {it})
                : it \in its}

\* lines 113-125: open the archive, extract it, flatten extracted_dirs[0]
NormalizeResults(t, fs, j) ==
    LET z == fs[ZipName(j)]
        t1 == Extracted(t, Archive(z, j))
    IN IF z = "absent" THEN {[t |-> t, fs |-> fs, out |-> "FileNotFoundError"]}
       ELSE IF z = "empty" THEN {[t |-> t, fs |-> fs, out |-> "BadZipFile"]}
       ELSE IF GuidEntry \notin t1
       THEN {[t |-> t1, fs |-> fs, out |-> "FileNotFoundError"]}
       ELSE IF ExtractedDirs(t1) = {}
       THEN {[t |-> t1, fs |-> fs, out |-> "IndexError"]}
       ELSE UNION {FlattenResults(t1, fs, j, d, Children(t1, d))
                   : d \in ExtractedDirs(t1)}

\* lines 63-127: the whole call for granule j when the source answers with r
JobResults(t, fs, j, r) ==
    LET st == IF AwsBranch(download_site) THEN AwsTransferStatus ELSE 0
        fs1 == IF r.code = 200 THEN [fs EXCEPT ![UrlFile(j)] = r.body] ELSE fs
    IN IF ~AsfBranch(st, download_site)
       THEN {[t |-> t, fs |-> fs, out |-> "done"]}
       ELSE IF ~(ParsedCredentials(asf_wget_str).user.has
                 /\ ParsedCredentials(asf_wget_str).pass.has)
       THEN {[t |-> t, fs |-> fs, out |-> "UnboundLocalError"]}
       ELSE IF AfterFetch(FetchStatus(st, r)) # "openzip"
       THEN {[t |-> t, fs |-> fs1, out |-> "done"]}
       ELSE NormalizeResults(t, fs1, j)

\* lines 389-393 with one worker process: the calls for granules j..NGranules one
\* after the other in list order; outs holds how each of them ended
RECURSIVE SequentialResults(_, _, _)
SequentialResults(j, t, fs) ==
    IF j > NGranules
    THEN {[t |-> t, fs |-> fs, outs |-> <<>>]}
    ELSE UNION {{[t |-> rest.t, fs |-> rest.fs, outs |-> <<one.out>> \o rest.outs]
                 : rest \in SequentialResults(j + 1, one.t, one.fs)}
                : one \in JobResults(t, fs, j, resp[j])}

----------------------------------------------------------------------------
(* The end of the pool *)

\* variant: the map result is ready as soon as one task has reported an exception
ResultReady_FailFast ==
    \/ \E j \in Granules : pc[j] = "raised"
    \/ taskq = <<>> /\ \A j \in Granules : Terminal(j)

\* starmap returns once every task of the list has reported its result
ResultReady == taskq = <<>> /\ \A j \in Granules : Terminal(j)

\* lines 391-398: starmap returns, or re-raises the first exception a task reported
JoinPool ==
    /\ mainPc = "pool"
    /\ ResultReady
    /\ mainPc' = IF \E j \in Granules : pc[j] = "raised" THEN "raised" ELSE "summary"
    /\ UNCHANGED <<inputs, guidGenerated, asf_wget_str, queryPosted, taskq, fsVars, jobVars>>

\* line 404
Finish ==
    /\ mainPc = "summary"
    /\ mainPc' = "complete"
    /\ UNCHANGED <<inputs, guidGenerated, asf_wget_str, queryPosted, taskq, fsVars, jobVars>>

Main == ReadConfig \/ RunQuery \/ Preflight \/ Dispatch \/ JoinPool \/ Finish

Job(j) ==
    \/ StartJob(j) \/ CheckRoot(j) \/ MakeRoot(j) \/ TryAWS(j) \/ FetchUrl(j)
    \/ OpenZip(j) \/ ListDirs(j) \/ CheckDir(j) \/ ListItems(j)
    \/ MoveItem(j) \/ Rmdir(j)

Next == Main \/ \E j \in Granules : Job(j)

Spec == Init /\ [][Next]_vars

\* the same program on the inputs of OptionsInit
OptionsSpec == OptionsInit /\ [][Next]_vars

\* every call of a job returns and the orchestrator is scheduled
FairSpec == Spec /\ WF_vars(Main) /\ \A j \in Granules : WF_vars(Job(j))

----------------------------------------------------------------------------
(* Properties *)

BeforeFetch == {"queued", "exists", "mkroot", "aws"}

\* the job sent a request to the open-dataset source
AwsContacted(j) == \E i \in DOMAIN net[j] : net[j][i] = "GET_AWS"

\* the job started the authenticated retrieval
AsfAttempted(j) == net[j] # <<>>

\* the job reported that the open-dataset attempt failed
AwsFailed(j) == \E m \in msgs[j] : m[1] = "AWS download failed"

\* C1: for download-site "both", a job that is past the open-dataset branch has
\* contacted the open-dataset source, the authenticated retrieval starts only
\* after a failed open-dataset attempt, and a finished job used the authenticated
\* retrieval exactly when the open-dataset attempt failed.
C1_BothAwsFirstThenAsfIffFailed ==
    download_site = "both" =>
        \A j \in Granules :
            /\ pc[j] \notin BeforeFetch => AwsContacted(j)
            /\ AsfAttempted(j) => AwsFailed(j)
            /\ Terminal(j) => (AsfAttempted(j) <=> AwsFailed(j))

\* the authenticated fetch of job j left a non-empty file on disk
FetchLeftNonEmptyFile(j) == resp[j].code = 200 /\ resp[j].body # "empty"

\* C2: the extraction step is entered only after the authenticated fetch left a
\* file of non-zero length, and the archive it is about to open is neither
\* missing nor empty.
C2_ExtractionOnlyOnNonEmptyArchive ==
    \A j \in Granules :
        /\ normEntered[j] => FetchLeftNonEmptyFile(j)
        /\ pc[j] = "openzip" => cwd[ZipName(j)] \notin {"absent", "empty"}

\* C3: a job whose authenticated GET was answered with a status other than 200
\* has printed that status, has written no archive file and never enters the
\* extraction step.
C3_Non200FailsWithoutNormalization ==
    \A j \in Granules :
        resp[j].code \notin {0, 200} =>
            /\ <<"Failed to download: HTTP", resp[j].code>> \in msgs[j]
            /\ cwd[UrlFile(j)] = "absent"
            /\ ~normEntered[j]

AllTerminal == \A j \in Granules : Terminal(j)

\* C4: once the jobs are handed to the pool, every one of them eventually reaches
\* a terminal outcome (returned or raised), whatever the other jobs did.
C4_EveryJobReachesTerminalOutcome == (mainPc = "pool") ~> AllTerminal

\* C4 witness: with one worker, the first job ended with an exception and the
\* second job was still run to a successful end.
C4_Witness ==
    /\ nproc = 1
    /\ pc[1] = "raised"
    /\ pc[2] = "done"
    /\ normEntered[2]

\* C5: when the last job has finished and the orchestrator has left the pool, it
\* is at the final summary (or past it), never ended by a job's exception.
C5_SummaryAlwaysReached ==
    (AllTerminal /\ mainPc # "pool") => mainPc \in {"summary", "complete"}

\* the configured username or password is missing or empty
CredentialAbsent ==
    \/ ~http_user.has \/ http_user.val = <<>>
    \/ ~http_pass.has \/ http_pass.val = <<>>

NothingDispatched ==
    /\ taskq = <<>>
    /\ \A j \in Granules : pc[j] = "queued" /\ runs[j] = 0

NoDirectoryCreated == rootExists = rootAtStart /\ ~GuidExists

NoRetrievalCall == \A j \in Granules : net[j] = <<>>

\* C6 as stated: with the authenticated source possibly needed and the username
\* or password missing or empty, no worker is dispatched, no network call at all
\* is made and no directory is created.
C6_AbortBeforeAnyNetworkCall ==
    (download_site # "AWS" /\ CredentialAbsent) =>
        /\ NothingDispatched
        /\ NoDirectoryCreated
        /\ NoRetrievalCall
        /\ ~queryPosted

\* C6 amended: in a download run with the authenticated source possibly needed
\* and the username or password missing or empty, the run ends in the pre-flight
\* ValueError; no worker is ever dispatched, no granule retrieval call is made and
\* no directory is created.  The abort comes after the search POST.
C6_AbortBeforeDispatch ==
    (download_site # "AWS" /\ CredentialAbsent) =>
        /\ NothingDispatched
        /\ NoDirectoryCreated
        /\ NoRetrievalCall
        /\ download => mainPc \in {"config", "query", "preflight", "aborted"}
        /\ mainPc = "aborted" => queryPosted

\* C6 witness: the run was aborted by the pre-flight check on an empty username
C6_Witness ==
    /\ mainPc = "aborted"
    /\ download_site = "ASF"
    /\ http_user = OptionValue(<<>>)
    /\ http_pass = OptionValue(<<"p">>)

\* the job normalized an archive of kind k that it fetched itself
Normalized(j, k) ==
    /\ Terminal(j)
    /\ normEntered[j]
    /\ urlSame
    /\ resp[j].code = 200
    /\ resp[j].body = k

\* C7: after the normalization of an archive made of one top-level directory
\* holding a and b, GUID_dir holds a and b, the top-level directory is gone and
\* the archive file is removed.
C7_SingleDirArchiveFlattened ==
    \A j \in Granules :
        Normalized(j, "ab") =>
            /\ pc[j] = "done"
            /\ <<Top, FileA>> \in tree
            /\ <<Top, FileB>> \in tree
            /\ <<Top, SafeDir(j)>> \notin tree
            /\ cwd[ZipName(j)] = "absent"

\* the job printed a failure
FailureReported(j) ==
    \E m \in msgs[j] : m[1] \in {"ASF download failed", "Failed to download: HTTP",
                                 "AWS download failed"}

\* C8: the normalization of an archive with no top-level directory, or with more
\* than one top-level entry, ends with a reported failure and without an
\* exception.
C8_MalformedArchiveReportsFailure ==
    \A j \in Granules :
        (Normalized(j, "flat") \/ Normalized(j, "two")) =>
            /\ pc[j] = "done"
            /\ FailureReported(j)

\* C9 as stated: GUID_dir exists before any worker starts a job.
C9_ScratchDirCreatedBeforeWorkers ==
    (\E j \in Granules : pc[j] # "queued") => GuidExists

\* C9 amended: the GUID_dir path is generated exactly once, before the pool is
\* created; the directory itself is created at most once, by the extraction step
\* of a job (so not before the workers start), and once created it is never
\* deleted.
C9_ScratchPathOnceDirNeverDeleted ==
    /\ mainPc # "config" => guidGenerated = 1
    /\ mainPc = "config" => guidGenerated = 0
    /\ guidMade <= 1
    /\ GuidExists <=> guidMade = 1
    /\ GuidExists => \E j \in Granules : normEntered[j] /\ pc[j] # "openzip"

\* C9 witness: a job went through extraction, flattening and cleanup and
\* GUID_dir is there
C9_Witness ==
    /\ GuidExists
    /\ \E j \in Granules : pc[j] = "done" /\ normEntered[j] /\ dirPath[j] = SafeDir(j)

\* C10: for download-site "ASF" a job never enters the open-dataset branch and
\* never contacts the open-dataset source; its network calls are the
\* unauthenticated GET followed by the authenticated GET, and nothing else.
C10_AsfOnlyTwoStepRetrieval ==
    download_site = "ASF" =>
        \A j \in Granules :
            /\ ~awsTried[j]
            /\ ~AwsContacted(j)
            /\ net[j] \in {<<>>, <<"GET", "GET_AUTH">>}
            /\ pc[j] \notin (BeforeFetch \cup {"fetch"}) => net[j] = <<"GET", "GET_AUTH">>

\* C10 witness: a finished job of an "ASF" run that made both calls
C10_Witness ==
    /\ download_site = "ASF"
    /\ \E j \in Granules : Terminal(j) /\ net[j] = <<"GET", "GET_AUTH">>

\* values of status after an open-dataset transfer: 0, or a non-zero exit status
TransferStatuses == {0, 1}

\* C11: for download-site "AWS" a job never starts the authenticated retrieval:
\* it makes no request to the authenticated source, gets no response from it and
\* never enters the extraction step; the test of line 84 rejects site "AWS" for a
\* successful and for a failed open-dataset status alike.
C11_AwsNeverUsesAuthenticatedSource ==
    /\ \A st \in TransferStatuses : ~AsfBranch(st, "AWS")
    /\ download_site = "AWS" =>
          \A j \in Granules :
              /\ \A i \in DOMAIN net[j] : net[j][i] = "GET_AWS"
              /\ resp[j] = NoResp
              /\ ~normEntered[j]
              /\ pc[j] \in BeforeFetch \cup {"done"}

\* C11 witness: a job of an "AWS" run went through the open-dataset branch and
\* returned without any request to the authenticated source
C11_Witness ==
    /\ download_site = "AWS"
    /\ \E j \in Granules : pc[j] = "done" /\ awsTried[j] /\ net[j] = <<>>

\* the working directory before any download
NoFiles == [n \in FileNames |-> NoFile]

\* how the call for granule j ended
Outcome(j) == IF pc[j] = "raised" THEN exc[j] ELSE pc[j]

\* the run's result once starmap is over: scratch directory, working directory
\* and per-granule outcomes
RunResult == [t |-> tree, fs |-> cwd, outs |-> [j \in Granules |-> Outcome(j)]]

\* C12: when the pool has finished, the per-granule outcomes and the content of
\* the scratch directory are ones that a run with a single worker reaches for the
\* same responses, whatever the number of worker processes.
C12_SameResultAsSingleWorker ==
    mainPc \in {"summary", "raised"} =>
        RunResult \in SequentialResults(1, {}, NoFiles)

\* how many entries of the task queue are for granule j
Queued(j) == Cardinality({i \in DOMAIN taskq : taskq[i] = j})

\* C13: every granule is the subject of exactly one job: it is never in the task
\* queue twice, a worker takes one granule at a time and never starts a granule a
\* second time, a granule waiting in a live pool is in the queue, and when the map
\* is over every granule has been started exactly once.
C13_OneJobPerGranule ==
    \A j \in Granules :
        /\ runs[j] + Queued(j) <= 1
        /\ (mainPc = "pool" /\ pc[j] = "queued") => Queued(j) = 1
        /\ pc[j] # "queued" => runs[j] = 1
        /\ mainPc \in {"summary", "raised"} => runs[j] = 1 /\ Terminal(j)

\* C13 witness: the map is over and each granule was started once
C13_Witness ==
    /\ mainPc \in {"summary", "raised"}
    /\ \A j \in Granules : runs[j] = 1

\* C14: the user name and the password a job hands to the session of the
\* authenticated fetch are exactly the values configured in asf_download, for
\* every pair of values the pre-flight check accepts.
C14_ParsedCredentialsAreConfigured ==
    \A j \in Granules :
        net[j] # <<>> => auth[j] = [user |-> http_user.val, pass |-> http_pass.val]

\* C15: once a job's normalization has run to its end, running lines 113-125
\* again for the same granule against the same scratch directory has one outcome
\* only: FileNotFoundError when the archive is opened, because the first run
\* removed it, with the scratch directory and the working directory as they were.
C15_SecondNormalizationFailsCleanly ==
    \A j \in Granules :
        (pc[j] = "done" /\ normEntered[j]) =>
            NormalizeResults(tree, cwd, j)
                = {[t |-> tree, fs |-> cwd, out |-> "FileNotFoundError"]}

\* C15 witness: a normalization has flattened an archive into the scratch
\* directory and returned
C15_Witness ==
    \E j \in Granules :
        /\ pc[j] = "done"
        /\ normEntered[j]
        /\ dirPath[j] = SafeDir(j)
        /\ <<Top, FileA>> \in tree
        /\ <<Top, SafeDir(j)>> \notin tree

\* C16: no job ends with the exception makedirs raises for an existing directory,
\* whatever the order in which the workers test and create the dataset root, and
\* the root exists from the moment any job is past lines 50-54.
C16_RootCreationRaceIsHarmless ==
    \A j \in Granules :
        /\ exc[j] # "FileExistsError"
        /\ pc[j] \notin {"queued", "exists", "mkroot"} => rootExists

\* C16 witness: the race has happened: job j found no root at line 50, job k
\* has created the root since and gone on, and j is at its own makedirs call
C16_Witness ==
    \E j, k \in Granules :
        /\ j # k
        /\ ~rootAtStart
        /\ pc[j] = "mkroot" /\ ~flag[j]
        /\ pc[k] \notin {"queued", "exists", "mkroot", "raised"}
        /\ rootExists

\* C17: the directory a job takes at line 117 to flatten and remove is a top-level
\* directory of the archive that job extracted.
C17_WorkerFlattensOwnDirectory ==
    \A j \in Granules :
        dirPath[j] # NoDir => <<Top, dirPath[j]>> \in Archive(resp[j].body, j)

\* C18: when a job whose fetch was answered with status 200 is about to open its
\* archive, the file name extraction opens is the file name the fetch wrote to,
\* and that file holds the body the fetch received.
C18_ExtractionOpensFetchedFile ==
    \A j \in Granules :
        (resp[j].code = 200 /\ pc[j] = "openzip") =>
            /\ ZipName(j) = UrlFile(j)
            /\ cwd[ZipName(j)] = resp[j].body

====
